---- MODULE Spec2Model ----
(***************************************************************************)
(* A model of blink.pairs: the line parser (src/parser/parse.rs), the      *)
(* sql matcher table (src/parser/languages/sql.rs) and the ParsedBuffer    *)
(* with its stack-height resolution and cursor queries (src/buffer.rs).    *)
(*                                                                         *)
(* A text is a sequence of lines, a line a sequence of one-character       *)
(* strings.  Line numbers and columns are 0-based as in the source; the    *)
(* sequences of the model are 1-based, so line l is matches_by_line[l+1].  *)
(***************************************************************************)
EXTENDS Integers, Sequences, FiniteSets, TLC

VARIABLES
    parsed,           \* TRUE once ParsedBuffer::parse produced a buffer
    matches_by_line,  \* ParsedBuffer.matches_by_line
    state_by_line,    \* ParsedBuffer.state_by_line
    content,          \* the lines of text the caller's buffer holds
    ret,              \* what the last call returned
    indent            \* a call of indent_levels: its arguments and its result

vars == <<parsed, matches_by_line, state_by_line, content, ret, indent>>

-----------------------------------------------------------------------------
(* Bounds of the model *)

\* how many lines of LinePool the caller's texts are drawn from
PoolSize == 12
\* the longest buffer, in lines
MaxLines == 2
\* the most lines one reparse_range call supplies
MaxNewLines == 1
\* the longest buffer of the language with spans, in lines
MaxSpanLines == 3
\* the longest text given to indent_levels, in bytes
MaxSrcLen == 5
\* the most lines of a text with backslashes
MaxEscapeLines == 2

-----------------------------------------------------------------------------
(* Option<usize>: None is -1, Some(n) is n *)

None == -1

Max(S) == CHOOSE x \in S : \A y \in S : y <= x

Min2(a, b) == IF a <= b THEN a ELSE b

-----------------------------------------------------------------------------
(* The sql matcher table *)

Delimiters == { <<"(", ")">>, <<"[", "]">>, <<"{", "}">> }

LineComments == { <<"-", "-">>, <<"#">> }

BlockComments == { <<"/", "*", "*", "/">> }

\* (the backquote, which a TLA+ string cannot hold, is written "bq")
Strings == { <<"\"">>, <<"'">>, <<"$", "$">>, <<"bq">> }

\* the name of a marker as the Token variants carry it ("/*")
RECURSIVE Name(_)
Name(marker) ==
    IF marker = <<>> THEN "" ELSE Head(marker) \o Name(Tail(marker))

BlockOpen(bc) == SubSeq(bc, 1, 2)
BlockClose(bc) == SubSeq(bc, 3, 4)

\* the matcher of sql; a block span is <<span, opening marker, closing marker>>
Sql ==
    [delimiters |-> Delimiters, line_comment |-> LineComments,
     block_comment |-> BlockComments, string |-> Strings, block_span |-> {}]

\* a matcher with a block span: the brackets, the line comment % and the
\* span math between $$ and $$
Tex ==
    [delimiters |-> Delimiters, line_comment |-> { <<"%">> },
     block_comment |-> {}, string |-> {},
     block_span |-> { <<"math", <<"$", "$">>, <<"$", "$">> >> }]

\* the bytes the matcher M asks the tokenizer to surface
MatcherTokens(M) ==
    UNION { {d[1], d[2]} : d \in M.delimiters }
    \cup UNION { {m[i] : i \in 1..Len(m)} :
                    m \in M.line_comment \cup M.block_comment \cup M.string }
    \cup UNION { {b[2][i] : i \in 1..Len(b[2])} \cup {b[3][i] : i \in 1..Len(b[3])} :
                    b \in M.block_span }

-----------------------------------------------------------------------------
(* State, Kind, Token and Match *)

Normal == <<"Normal">>
InString(q) == <<"InString", q>>
InLineComment == <<"InLineComment">>
InBlockComment(c) == <<"InBlockComment", c>>
InBlockSpan(span) == <<"InBlockSpan", span>>

Delimiter(o, c) == <<"Delimiter", o, c>>
LineComment(m) == <<"LineComment", m>>
BlockComment(o, c) == <<"BlockComment", o, c>>
\* Token::BlockSpan(span, opening, closing): the span is the last field here,
\* so that opening and closing sit where the other Tokens have them
BlockSpan(span, o, c) == <<"BlockSpan", o, c, span>>

IsDelimiter(token) == token[1] = "Delimiter"

\* Token::opening and Token::closing
TokenOpening(token) == token[2]
TokenClosing(token) == IF Len(token) >= 3 THEN token[3] ELSE "none"

Match(kind, token, col, len) ==
    [kind |-> kind, token |-> token, col |-> col, len |-> len, stack_height |-> None]

with_line(m, line) ==
    [kind |-> m.kind, token |-> m.token, col |-> m.col, len |-> m.len,
     stack_height |-> m.stack_height, line |-> line]

-----------------------------------------------------------------------------
(* The tokenizer *)

\* lines.join("\n")
RECURSIVE Join(_)
Join(lines) ==
    IF lines = <<>> THEN <<>>
    ELSE IF Len(lines) = 1 THEN lines[1]
    ELSE lines[1] \o <<"\n">> \o Join(Tail(lines))

\* one token per newline, backslash and byte of bytes, with its column in its line
RECURSIVE tokenize(_, _, _, _)
tokenize(text, bytes, i, col) ==
    IF i > Len(text) THEN <<>>
    ELSE LET b == text[i] IN
         (IF b \in bytes \cup {"\n", "\\"}
          THEN << [byte |-> b, col |-> col] >> ELSE <<>>)
         \o tokenize(text, bytes, i + 1, IF b = "\n" THEN 0 ELSE col + 1)

-----------------------------------------------------------------------------
(* The matcher *)

\* the next tokens spell the marker in adjacent columns, starting at token i
MarkerAt(tokens, i, marker) ==
    /\ i + Len(marker) - 1 <= Len(tokens)
    /\ \A k \in 1..Len(marker) :
          /\ tokens[i + k - 1].byte = marker[k]
          /\ tokens[i + k - 1].col = tokens[i].col + k - 1

\* Matcher::call: the new State, the Matches appended to the line and the
\* number of tokens taken (the token itself and those taken by lookahead)
matcher_call(M, tokens, i, state, escaped) ==
    LET t == tokens[i]
        inert == [state |-> state, matches |-> <<>>, consumed |-> 1]
    IN
    IF escaped THEN inert
    ELSE IF state = Normal THEN
        IF \E d \in M.delimiters : t.byte = d[1] THEN
            LET d == CHOOSE d \in M.delimiters : t.byte = d[1] IN
            [state |-> Normal,
             matches |-> << Match("Opening", Delimiter(d[1], d[2]), t.col, 1) >>,
             consumed |-> 1]
        ELSE IF \E d \in M.delimiters : t.byte = d[2] THEN
            LET d == CHOOSE d \in M.delimiters : t.byte = d[2] IN
            [state |-> Normal,
             matches |-> << Match("Closing", Delimiter(d[1], d[2]), t.col, 1) >>,
             consumed |-> 1]
        ELSE IF \E m \in M.line_comment : MarkerAt(tokens, i, m) THEN
            LET m == CHOOSE m \in M.line_comment : MarkerAt(tokens, i, m) IN
            [state |-> InLineComment,
             matches |-> << Match("NonPair", LineComment(Name(m)), t.col, Len(m)) >>,
             consumed |-> Len(m)]
        ELSE IF \E bc \in M.block_comment : MarkerAt(tokens, i, BlockOpen(bc)) THEN
            LET bc == CHOOSE bc \in M.block_comment : MarkerAt(tokens, i, BlockOpen(bc)) IN
            [state |-> InBlockComment(Name(BlockClose(bc))),
             matches |-> << Match("Opening",
                                  BlockComment(Name(BlockOpen(bc)), Name(BlockClose(bc))),
                                  t.col, 2) >>,
             consumed |-> 2]
        ELSE IF \E q \in M.string : MarkerAt(tokens, i, q) THEN
            LET q == CHOOSE q \in M.string : MarkerAt(tokens, i, q) IN
            [state |-> InString(Name(q)), matches |-> <<>>, consumed |-> Len(q)]
        ELSE IF \E b \in M.block_span : MarkerAt(tokens, i, b[2]) THEN
            LET b == CHOOSE b \in M.block_span : MarkerAt(tokens, i, b[2]) IN
            [state |-> InBlockSpan(b[1]),
             matches |-> << Match("Opening", BlockSpan(b[1], Name(b[2]), Name(b[3])),
                                  t.col, Len(b[2])) >>,
             consumed |-> Len(b[2])]
        ELSE inert
    ELSE IF state[1] = "InString" THEN
        IF \E q \in M.string : Name(q) = state[2] /\ MarkerAt(tokens, i, q) THEN
            LET q == CHOOSE q \in M.string : Name(q) = state[2] /\ MarkerAt(tokens, i, q) IN
            [state |-> Normal, matches |-> <<>>, consumed |-> Len(q)]
        ELSE inert
    ELSE IF state[1] = "InBlockComment" THEN
        IF \E bc \in M.block_comment :
              Name(BlockClose(bc)) = state[2] /\ MarkerAt(tokens, i, BlockClose(bc)) THEN
            LET bc == CHOOSE bc \in M.block_comment :
                         Name(BlockClose(bc)) = state[2] /\ MarkerAt(tokens, i, BlockClose(bc)) IN
            [state |-> Normal,
             matches |-> << Match("Closing",
                                  BlockComment(Name(BlockOpen(bc)), Name(BlockClose(bc))),
                                  t.col, 2) >>,
             consumed |-> 2]
        ELSE inert
    ELSE IF state[1] = "InBlockSpan" THEN
        IF \E b \in M.block_span : b[1] = state[2] /\ MarkerAt(tokens, i, b[3]) THEN
            LET b == CHOOSE b \in M.block_span : b[1] = state[2] /\ MarkerAt(tokens, i, b[3]) IN
            [state |-> Normal,
             matches |-> << Match("Closing", BlockSpan(b[1], Name(b[2]), Name(b[3])),
                                  t.col, Len(b[3])) >>,
             consumed |-> Len(b[3])]
        ELSE inert
    ELSE inert

-----------------------------------------------------------------------------
(* The parser: parse.rs *)

\* the states a newline closes
ClosedAtNewline(state) ==
    IF state[1] \in {"InString", "InLineComment", "InInlineSpan"} THEN Normal ELSE state

\* a parse in which every backslash sets the pending escape, where parse
\* lets a backslash that is itself escaped escape nothing
RECURSIVE parse_loop_every_backslash(_, _, _, _)
parse_loop_every_backslash(M, tokens, i, st) ==
    IF i > Len(tokens)
    THEN [matches_by_line |-> Append(st.matches_by_line, st.line_matches),
          state_by_line |-> Append(st.state_by_line, st.state),
          calls |-> st.calls]
    ELSE LET token == tokens[i] IN
        IF token.byte = "\n" THEN
            parse_loop_every_backslash(M, tokens, i + 1,
                [matches_by_line |-> Append(st.matches_by_line, st.line_matches),
                 line_matches |-> <<>>,
                 escaped_col |-> None,
                 state |-> ClosedAtNewline(st.state),
                 state_by_line |-> Append(st.state_by_line, ClosedAtNewline(st.state)),
                 calls |-> st.calls])
        ELSE IF token.byte = "\\" THEN
            parse_loop_every_backslash(M, tokens, i + 1, [st EXCEPT !.escaped_col = token.col])
        ELSE
            LET r == matcher_call(M, tokens, i, st.state,
                                  st.escaped_col # None /\ st.escaped_col = token.col - 1)
            IN parse_loop_every_backslash(M, tokens, i + r.consumed,
                          [st EXCEPT !.line_matches = st.line_matches \o r.matches,
                                     !.state = r.state,
                                     !.calls = Append(st.calls,
                                         [byte |-> token.byte, col |-> token.col,
                                          line |-> Len(st.matches_by_line),
                                          is_escaped |-> st.escaped_col # None
                                                         /\ st.escaped_col = token.col - 1])])

\* the while loop over the tokens; st holds the local variables, and calls
\* the calls of matcher.call made so far: the token, its line, is_escaped
RECURSIVE parse_loop(_, _, _, _)
parse_loop(M, tokens, i, st) ==
    IF i > Len(tokens)
    THEN [matches_by_line |-> Append(st.matches_by_line, st.line_matches),
          state_by_line |-> Append(st.state_by_line, st.state),
          calls |-> st.calls]
    ELSE LET token == tokens[i] IN
        IF token.byte = "\n" THEN
            parse_loop(M, tokens, i + 1,
                [matches_by_line |-> Append(st.matches_by_line, st.line_matches),
                 line_matches |-> <<>>,
                 escaped_col |-> None,
                 state |-> ClosedAtNewline(st.state),
                 state_by_line |-> Append(st.state_by_line, ClosedAtNewline(st.state)),
                 calls |-> st.calls])
        ELSE IF token.byte = "\\" THEN
            IF st.escaped_col # None /\ st.escaped_col = token.col - 1
            THEN parse_loop(M, tokens, i + 1, [st EXCEPT !.escaped_col = None])
            ELSE parse_loop(M, tokens, i + 1, [st EXCEPT !.escaped_col = token.col])
        ELSE
            LET r == matcher_call(M, tokens, i, st.state,
                                  st.escaped_col # None /\ st.escaped_col = token.col - 1)
            IN parse_loop(M, tokens, i + r.consumed,
                          [st EXCEPT !.line_matches = st.line_matches \o r.matches,
                                     !.state = r.state,
                                     !.calls = Append(st.calls,
                                         [byte |-> token.byte, col |-> token.col,
                                          line |-> Len(st.matches_by_line),
                                          is_escaped |-> st.escaped_col # None
                                                         /\ st.escaped_col = token.col - 1])])

parse(lines, initial_state, M) ==
    parse_loop(M, tokenize(Join(lines), MatcherTokens(M), 1, 0), 1,
               [matches_by_line |-> <<>>, line_matches |-> <<>>,
                state_by_line |-> <<>>, state |-> initial_state,
                escaped_col |-> None, calls |-> <<>>])

-----------------------------------------------------------------------------
(* parse_filetype: the registry of matchers and the heights of a fresh parse *)

\* the language identifiers that have a registered matcher
Filetypes == {"sql", "tex"}

\* the matcher registered for a language
MatcherOf(filetype) == IF filetype = "tex" THEN Tex ELSE Sql

RECURSIVE Flatten(_)
Flatten(mbl) == IF mbl = <<>> THEN <<>> ELSE Head(mbl) \o Flatten(Tail(mbl))

\* the number of Matches on the lines before line l (1-based)
RECURSIVE Offset(_, _)
Offset(mbl, l) == IF l <= 1 THEN 0 ELSE Len(mbl[l - 1]) + Offset(mbl, l - 1)

\* matches_by_line with the heights hs, given in document order
SetHeights(mbl, hs) ==
    [l \in 1..Len(mbl) |->
        [k \in 1..Len(mbl[l]) |->
            [mbl[l][k] EXCEPT !.stack_height = hs[Offset(mbl, l) + k]]]]

\* the resolution pass over the Delimiter Matches alone: an opener is pushed,
\* a closer pairs with the nearest compatible opener on the stack, the
\* entries above it are dropped unmatched, and what stays on the stack at the
\* end is unmatched; other Matches keep None
RECURSIVE resolve_delimiters(_, _, _, _)
resolve_delimiters(flat, i, stack, hs) ==
    IF i > Len(flat)
    THEN [k \in 1..Len(flat) |->
            IF \E x \in 1..Len(stack) : stack[x] = k THEN None ELSE hs[k]]
    ELSE IF ~IsDelimiter(flat[i].token)
    THEN resolve_delimiters(flat, i + 1, stack, hs)
    ELSE IF flat[i].kind = "Opening"
    THEN resolve_delimiters(flat, i + 1, Append(stack, i), hs)
    ELSE LET found == {j \in 1..Len(stack) : flat[stack[j]].token = flat[i].token} IN
         IF found = {}
         THEN resolve_delimiters(flat, i + 1, stack, [hs EXCEPT ![i] = None])
         ELSE LET j == Max(found) IN
              resolve_delimiters(flat, i + 1, SubSeq(stack, 1, j - 1),
                  [k \in 1..Len(flat) |->
                      IF \E x \in (j + 1)..Len(stack) : stack[x] = k THEN None
                      ELSE IF k = stack[j] \/ k = i THEN j - 1
                      ELSE hs[k]])

\* the parse p with the heights of its delimiters resolved
with_heights(p) ==
    LET flat == Flatten(p.matches_by_line) IN
    [some |-> TRUE,
     matches_by_line |->
         SetHeights(p.matches_by_line,
                    resolve_delimiters(flat, 1, <<>>, [k \in 1..Len(flat) |-> None])),
     state_by_line |-> p.state_by_line]

\* None for an unregistered language, else the parse of the lines with the
\* heights of their delimiters resolved
parse_filetype(filetype, lines, initial_state) ==
    IF filetype \notin Filetypes THEN [some |-> FALSE]
    ELSE with_heights(parse(lines, initial_state, MatcherOf(filetype)))

-----------------------------------------------------------------------------
(* ParsedBuffer: buffer.rs *)
\* a resolution that leaves the openers a closer skips with a height, where
\* recalculate_stack_heights marks them unmatched
RECURSIVE resolve_loop_skipped_kept(_, _, _, _)
resolve_loop_skipped_kept(flat, i, stack, hs) ==
    IF i > Len(flat)
    THEN [k \in 1..Len(flat) |->
            IF \E x \in 1..Len(stack) : stack[x] = k THEN None ELSE hs[k]]
    ELSE IF flat[i].kind = "Opening"
    THEN resolve_loop_skipped_kept(flat, i + 1, Append(stack, i), hs)
    ELSE LET found == {j \in 1..Len(stack) : flat[stack[j]].token = flat[i].token} IN
         IF found = {}
         THEN resolve_loop_skipped_kept(flat, i + 1, stack, [hs EXCEPT ![i] = None])
         ELSE LET j == Max(found) IN
              resolve_loop_skipped_kept(flat, i + 1, SubSeq(stack, 1, j - 1),
                  [k \in 1..Len(flat) |->
                      IF \E x \in (j + 1)..Len(stack) : stack[x] = k THEN j
                      ELSE IF k = stack[j] \/ k = i THEN j - 1
                      ELSE hs[k]])

\* a resolution in which a closer pairs with the lowest compatible opener
\* of the stack, where recalculate_stack_heights takes the one nearest the top
RECURSIVE resolve_loop_lowest_opener(_, _, _, _)
resolve_loop_lowest_opener(flat, i, stack, hs) ==
    IF i > Len(flat)
    THEN [k \in 1..Len(flat) |->
            IF \E x \in 1..Len(stack) : stack[x] = k THEN None ELSE hs[k]]
    ELSE IF flat[i].kind = "Opening"
    THEN resolve_loop_lowest_opener(flat, i + 1, Append(stack, i), hs)
    ELSE LET found == {j \in 1..Len(stack) : flat[stack[j]].token = flat[i].token} IN
         IF found = {}
         THEN resolve_loop_lowest_opener(flat, i + 1, stack, [hs EXCEPT ![i] = None])
         ELSE LET j == CHOOSE x \in found : \A y \in found : x <= y IN
              resolve_loop_lowest_opener(flat, i + 1, SubSeq(stack, 1, j - 1),
                  [k \in 1..Len(flat) |->
                      IF \E x \in (j + 1)..Len(stack) : stack[x] = k THEN None
                      ELSE IF k = stack[j] \/ k = i THEN j - 1
                      ELSE hs[k]])

\* a resolution that gives a pair the number of entries beneath its closer,
\* the openers the closer skips counted, where recalculate_stack_heights
\* counts the entries beneath the opener
RECURSIVE resolve_loop_skipped_counted(_, _, _, _)
resolve_loop_skipped_counted(flat, i, stack, hs) ==
    IF i > Len(flat)
    THEN [k \in 1..Len(flat) |->
            IF \E x \in 1..Len(stack) : stack[x] = k THEN None ELSE hs[k]]
    ELSE IF flat[i].kind = "Opening"
    THEN resolve_loop_skipped_counted(flat, i + 1, Append(stack, i), hs)
    ELSE LET found == {j \in 1..Len(stack) : flat[stack[j]].token = flat[i].token} IN
         IF found = {}
         THEN resolve_loop_skipped_counted(flat, i + 1, stack, [hs EXCEPT ![i] = None])
         ELSE LET j == Max(found) IN
              resolve_loop_skipped_counted(flat, i + 1, SubSeq(stack, 1, j - 1),
                  [k \in 1..Len(flat) |->
                      IF \E x \in (j + 1)..Len(stack) : stack[x] = k THEN None
                      ELSE IF k = stack[j] \/ k = i THEN Len(stack) - 1
                      ELSE hs[k]])

\* the two nested for loops; stack holds the positions (in document order)
\* of the Matches pushed, hs the stack_height of every Match
RECURSIVE resolve_loop(_, _, _, _)
resolve_loop(flat, i, stack, hs) ==
    IF i > Len(flat)
    THEN \* Remaining items in stack must be unmatched
         [k \in 1..Len(flat) |->
            IF \E x \in 1..Len(stack) : stack[x] = k THEN None ELSE hs[k]]
    ELSE IF flat[i].kind = "Opening"
    THEN resolve_loop(flat, i + 1, Append(stack, i), hs)
    ELSE LET found == {j \in 1..Len(stack) : flat[stack[j]].token = flat[i].token} IN
         IF found = {}
         THEN \* No match found, mark as unmatched
              resolve_loop(flat, i + 1, stack, [hs EXCEPT ![i] = None])
         ELSE LET j == Max(found) IN
              resolve_loop(flat, i + 1, SubSeq(stack, 1, j - 1),
                  [k \in 1..Len(flat) |->
                      IF \E x \in (j + 1)..Len(stack) : stack[x] = k THEN None
                      ELSE IF k = stack[j] \/ k = i THEN j - 1
                      ELSE hs[k]])

\* a reparse that leaves every Match the height it has, where reparse_range
\* runs the resolution over the whole buffer
heights_kept(mbl) == mbl

recalculate_stack_heights(mbl) ==
    LET flat == Flatten(mbl) IN
    SetHeights(mbl, resolve_loop(flat, 1, <<>>, [k \in 1..Len(flat) |-> flat[k].stack_height]))

\* a splice that puts the new entries behind the old range without taking
\* the old range out
splice_insert_only(v, start, end, with) ==
    SubSeq(v, 1, end) \o with \o SubSeq(v, end + 1, Len(v))

\* Vec::splice(start..end, with) on a vector v
Splice(v, start, end, with) ==
    SubSeq(v, 1, start) \o with \o SubSeq(v, end + 1, Len(v))

\* a reparse_range that removes the old range before it looks at what
\* parse_filetype returned, where reparse_range leaves the buffer untouched
splice_first(p, mbl, sbl, start_line, old_end_line, new_end_line_opt) ==
    IF ~p.some
    THEN [ret |-> "false",
          matches_by_line |-> Splice(mbl, start_line, old_end_line, <<>>),
          state_by_line |-> Splice(sbl, start_line, old_end_line, <<>>)]
    ELSE LET new_end_line ==
                 IF new_end_line_opt = None
                 THEN start_line + Len(p.matches_by_line) ELSE new_end_line_opt
             length == new_end_line - start_line
         IN
         IF length < 0 \/ length > Len(p.matches_by_line) \/ start_line > old_end_line
         THEN [ret |-> "panic", matches_by_line |-> mbl, state_by_line |-> sbl]
         ELSE [ret |-> "true",
               matches_by_line |->
                   recalculate_stack_heights(
                       Splice(mbl, start_line, old_end_line,
                              SubSeq(p.matches_by_line, 1, length))),
               state_by_line |->
                   Splice(sbl, start_line, old_end_line, SubSeq(p.state_by_line, 1, length))]

\* the if-let of reparse_range on what parse_filetype returned, p: it panics
\* where the subtraction, the slice or the splice range is out of bounds
splice_parsed(p, mbl, sbl, start_line, old_end_line, new_end_line_opt) ==
    IF ~p.some THEN [ret |-> "false", matches_by_line |-> mbl, state_by_line |-> sbl]
    ELSE LET new_end_line ==
                 IF new_end_line_opt = None
                 THEN start_line + Len(p.matches_by_line) ELSE new_end_line_opt
             length == new_end_line - start_line
         IN
         IF length < 0 \/ length > Len(p.matches_by_line) \/ start_line > old_end_line
         THEN [ret |-> "panic", matches_by_line |-> mbl, state_by_line |-> sbl]
         ELSE [ret |-> "true",
               matches_by_line |->
                   recalculate_stack_heights(
                       Splice(mbl, start_line, old_end_line,
                              SubSeq(p.matches_by_line, 1, length))),
               state_by_line |->
                   Splice(sbl, start_line, old_end_line, SubSeq(p.state_by_line, 1, length))]

\* the State the re-parsed range starts in
initial_state_at(sbl, start_line) ==
    IF start_line > 0
    THEN (IF start_line - 1 < Len(sbl) THEN sbl[start_line] ELSE Normal)
    ELSE Normal

\* the outcome of reparse_range on the buffer (mbl, sbl)
reparse_range(mbl, sbl, filetype, lines, start_line_opt, old_end_line_opt, new_end_line_opt) ==
    LET max_line == Len(mbl)
        start_line == Min2(IF start_line_opt = None THEN 0 ELSE start_line_opt, max_line)
        old_end_line ==
            Min2(IF old_end_line_opt = None THEN max_line ELSE old_end_line_opt, max_line)
    IN splice_parsed(parse_filetype(filetype, lines, initial_state_at(sbl, start_line)),
                     mbl, sbl, start_line, old_end_line, new_end_line_opt)

-----------------------------------------------------------------------------
(* The queries of ParsedBuffer.  A query that indexes out of bounds or      *)
(* underflows a usize panics: its result is then Panic.                     *)

NoneR == [tag |-> "None"]
SomeR(v) == [tag |-> "Some", val |-> v]
Panic == [tag |-> "Panic"]

line_matches(mbl, line_number) ==
    IF line_number < Len(mbl) THEN SomeR(mbl[line_number + 1]) ELSE NoneR

\* the Matches of the lines current_line.. in document order, those of line
\* line_number only from column col on
RECURSIVE iter_from_lines(_, _, _, _)
iter_from_lines(mbl, current_line, line_number, col) ==
    IF current_line >= Len(mbl) THEN <<>>
    ELSE LET keep(m) == current_line # line_number \/ m.col >= col
             here == SelectSeq(mbl[current_line + 1], keep)
         IN [k \in 1..Len(here) |-> with_line(here[k], current_line)]
            \o iter_from_lines(mbl, current_line + 1, line_number, col)

iter_from(mbl, line_number, col) ==
    IF line_number > Len(mbl) THEN Panic
    ELSE SomeR(iter_from_lines(mbl, line_number, line_number, col))

\* the lines current_line, current_line - 1, .. 0, each line's Matches in the
\* order matches.iter() gives them, those of line line_number only before col
RECURSIVE iter_to_lines(_, _, _, _)
iter_to_lines(mbl, current_line, line_number, col) ==
    IF current_line < 0 THEN <<>>
    ELSE LET keep(m) == current_line # line_number \/ m.col < col
             here == SelectSeq(mbl[current_line + 1], keep)
         IN [k \in 1..Len(here) |-> with_line(here[k], current_line)]
            \o iter_to_lines(mbl, current_line - 1, line_number, col)

iter_to(mbl, line_number, col) ==
    IF Len(mbl) = 0 THEN Panic
    ELSE SomeR(iter_to_lines(mbl, Min2(line_number, Len(mbl) - 1), line_number, col))

\* the first element of seq that satisfies Test, as an Option
First(seq, Test(_)) ==
    LET hits == {k \in 1..Len(seq) : Test(seq[k])} IN
    IF hits = {} THEN NoneR ELSE SomeR(seq[CHOOSE k \in hits : \A h \in hits : k <= h])

Reverse(seq) == [k \in 1..Len(seq) |-> seq[Len(seq) + 1 - k]]

IsSpan(token) == token[1] \in {"InlineSpan", "BlockSpan"}

\* the span opened by opening is not closed on the line before col
RunsTo(matches, opening, col) ==
    LET closes(m) == /\ m.kind = "Closing"
                     /\ m.col > opening.col
                     /\ m.token = opening.token
                     /\ m.stack_height = opening.stack_height
        closing == First(matches, closes)
    IN ~(closing.tag = "Some" /\ closing.val.col < col)

span_at(mbl, sbl, line_number, col) ==
    IF line_number >= Len(mbl) \/ line_number >= Len(sbl) THEN NoneR
    ELSE LET matches == mbl[line_number + 1]
             line_state == sbl[line_number + 1]
             \* the openers at or before col that find_map maps to a span
             found == { k \in 1..Len(matches) :
                          /\ matches[k].kind = "Opening"
                          /\ matches[k].col <= col
                          /\ IsSpan(matches[k].token)
                          /\ RunsTo(matches, matches[k], col) }
         IN IF found # {} THEN SomeR(matches[Max(found)].token[4])
            \* Look for spans that started before the current line
            ELSE IF line_state[1] \in {"InInlineSpan", "InBlockSpan"}
                 THEN SomeR(line_state[2])
                 ELSE NoneR

match_at(mbl, line_number, col) ==
    IF line_number >= Len(mbl) THEN NoneR
    ELSE LET contains(m) == m.col <= col /\ col < m.col + m.len
         IN First(mbl[line_number + 1], contains)

\* a match_pair whose closer takes the first co-depth opener of the buffer,
\* where match_pair takes the nearest one before the closer
match_pair_first_opener(mbl, line_number, col) ==
    LET at == match_at(mbl, line_number, col) IN
    IF at.tag = "None" THEN NoneR
    ELSE LET match_at_pos == with_line(at.val, line_number) IN
        IF IsDelimiter(match_at_pos.token) /\ match_at_pos.stack_height = None THEN NoneR
        ELSE IF match_at_pos.kind = "Opening" THEN
            LET partner(m) ==
                    /\ (line_number # m.line \/ m.col > col)
                    /\ match_at_pos.token = m.token
                    /\ match_at_pos.stack_height = m.stack_height
                closing_match == First(iter_from_lines(mbl, line_number, -1, 0), partner)
            IN IF closing_match.tag = "None" THEN NoneR
               ELSE SomeR(<<match_at_pos, closing_match.val>>)
        ELSE IF match_at_pos.kind = "Closing" THEN
            LET partner(m) ==
                    /\ (line_number # m.line \/ m.col < col)
                    /\ match_at_pos.token = m.token
                    /\ match_at_pos.stack_height = m.stack_height
                opening_match == First(SubSeq(iter_from_lines(mbl, 0, -1, 0), 1,
                                              Offset(mbl, line_number + 2)), partner)
            IN IF opening_match.tag = "None" THEN NoneR
               ELSE SomeR(<<opening_match.val, match_at_pos>>)
        ELSE NoneR

match_pair(mbl, line_number, col) ==
    LET at == match_at(mbl, line_number, col) IN
    IF at.tag = "None" THEN NoneR
    ELSE LET match_at_pos == with_line(at.val, line_number) IN
        \* Ignore unmatched delimiter
        IF IsDelimiter(match_at_pos.token) /\ match_at_pos.stack_height = None THEN NoneR
        ELSE IF match_at_pos.kind = "Opening" THEN
            LET partner(m) ==
                    /\ (line_number # m.line \/ m.col > col)
                    /\ match_at_pos.token = m.token
                    /\ match_at_pos.stack_height = m.stack_height
                closing_match == First(iter_from_lines(mbl, line_number, -1, 0), partner)
            IN IF closing_match.tag = "None" THEN NoneR
               ELSE SomeR(<<match_at_pos, closing_match.val>>)
        ELSE IF match_at_pos.kind = "Closing" THEN
            LET partner(m) ==
                    /\ (line_number # m.line \/ m.col < col)
                    /\ match_at_pos.token = m.token
                    /\ match_at_pos.stack_height = m.stack_height
                \* lines line_number..0, each line's Matches last to first
                before == Reverse(SubSeq(iter_from_lines(mbl, 0, -1, 0), 1,
                                         Offset(mbl, line_number + 2)))
                opening_match == First(before, partner)
            IN IF opening_match.tag = "None" THEN NoneR
               ELSE SomeR(<<opening_match.val, match_at_pos>>)
        ELSE NoneR

\* find_map: the height of the first resolved Match, plus 1 if it is of the given kind
HeightFrom(seq, kind) ==
    LET resolved(m) == m.stack_height # None
        hit == First(seq, resolved)
    IN IF hit.tag = "None" THEN NoneR
       ELSE SomeR(hit.val.stack_height + (IF hit.val.kind = kind THEN 1 ELSE 0))

stack_height_at(mbl, line_number, col) ==
    LET forward == iter_from(mbl, line_number, col) IN
    IF forward.tag = "Panic" THEN Panic
    ELSE LET f == HeightFrom(forward.val, "Closing") IN
         IF f.tag = "Some" THEN f
         ELSE LET backward == iter_to(mbl, line_number, col) IN
              IF backward.tag = "Panic" THEN Panic
              ELSE LET b == HeightFrom(backward.val, "Opening") IN
                   IF b.tag = "Some" THEN b ELSE SomeR(0)

\* a search that goes on at every Match of lower depth and lowers its
\* minimum to it, where the code gives up unless the Match is of the
\* requested pair
RECURSIVE unmatched_loop_any_lower(_, _, _, _, _, _, _, _)
unmatched_loop_any_lower(seq, k, opening, closing, wanted, bumped, lowest, current) ==
    IF k > Len(seq) THEN NoneR
    ELSE LET m == seq[k]
             pair == /\ m.kind = wanted
                     /\ TokenClosing(m.token) = closing
                     /\ TokenOpening(m.token) = opening
             lower == m.stack_height # None /\ m.stack_height < lowest
             lowest2 == IF lower THEN m.stack_height ELSE lowest
             current2 == IF m.stack_height # None
                         THEN m.stack_height + (IF m.kind = bumped THEN 1 ELSE 0)
                         ELSE current
         IN IF pair /\ m.stack_height = None /\ current2 = lowest2 THEN SomeR(m)
            ELSE unmatched_loop_any_lower(seq, k + 1, opening, closing, wanted, bumped,
                                          lowest2, current2)

\* the for loop shared by unmatched_opening_before (wanted = "Opening",
\* bumped = "Closing") and unmatched_closing_after (the reverse)
RECURSIVE unmatched_loop(_, _, _, _, _, _, _, _)
unmatched_loop(seq, k, opening, closing, wanted, bumped, lowest, current) ==
    IF k > Len(seq) THEN NoneR
    ELSE LET m == seq[k]
             pair == /\ m.kind = wanted
                     /\ TokenClosing(m.token) = closing
                     /\ TokenOpening(m.token) = opening
             lower == m.stack_height # None /\ m.stack_height < lowest
             lowest2 == IF lower /\ pair THEN m.stack_height ELSE lowest
             current2 == IF m.stack_height # None
                         THEN m.stack_height + (IF m.kind = bumped THEN 1 ELSE 0)
                         ELSE current
         IN IF lower /\ ~pair THEN NoneR
            ELSE IF pair /\ m.stack_height = None /\ current2 = lowest2 THEN SomeR(m)
            ELSE unmatched_loop(seq, k + 1, opening, closing, wanted, bumped, lowest2, current2)

OnlyDelimiters(seq) ==
    LET d(m) == IsDelimiter(m.token) IN SelectSeq(seq, d)

unmatched_opening_before(mbl, opening, closing, line_number, col) ==
    LET cursor_stack_height == stack_height_at(mbl, line_number, col) IN
    IF cursor_stack_height.tag = "Panic" THEN Panic
    ELSE LET it == iter_to(mbl, line_number, col) IN
         IF it.tag = "Panic" THEN Panic
         ELSE unmatched_loop(OnlyDelimiters(it.val), 1, opening, closing,
                             "Opening", "Closing",
                             cursor_stack_height.val, cursor_stack_height.val)

\* an unmatched_closing_after that walks the cursor's line from its first
\* column, where the code starts at the cursor
closing_from_line_start(mbl, opening, closing, line_number, col) ==
    LET cursor_stack_height == stack_height_at(mbl, line_number, col) IN
    IF cursor_stack_height.tag = "Panic" THEN Panic
    ELSE LET it == iter_from(mbl, line_number, 0) IN
         IF it.tag = "Panic" THEN Panic
         ELSE unmatched_loop(OnlyDelimiters(it.val), 1, opening, closing,
                             "Closing", "Opening",
                             cursor_stack_height.val, cursor_stack_height.val)

unmatched_closing_after(mbl, opening, closing, line_number, col) ==
    LET cursor_stack_height == stack_height_at(mbl, line_number, col) IN
    IF cursor_stack_height.tag = "Panic" THEN Panic
    ELSE LET it == iter_from(mbl, line_number, col) IN
         IF it.tag = "Panic" THEN Panic
         ELSE unmatched_loop(OnlyDelimiters(it.val), 1, opening, closing,
                             "Closing", "Opening",
                             cursor_stack_height.val, cursor_stack_height.val)

-----------------------------------------------------------------------------
(* The calls a client makes *)

\* the language identifiers a client passes; "nolang" has no matcher
FiletypeIds == {"sql", "nolang"}

\* the lines the texts of the model are made of
LinePool == <<
    << "(" >>,
    << ")" >>,
    << "/", "*" >>,
    << "*", "/" >>,
    << "#", "(" >>,
    << "(", ")" >>,
    << "(", "(" >>,
    << "(", "[" >>,
    << "]" >>,
    << "[" >>,
    << "\"", "(" >>,
    << "(", "]" >> >>

Lines == { LinePool[i] : i \in 1..Min2(PoolSize, Len(LinePool)) }

\* the texts of lo to hi lines
Texts(lo, hi) == UNION { [1..n -> Lines] : n \in lo..hi }

\* no call of indent_levels
NoIndent == [src |-> <<>>, tab_width |-> 0, N |-> 1, returned |-> FALSE, levels |-> <<>>]

Init ==
    /\ parsed = FALSE
    /\ matches_by_line = <<>>
    /\ state_by_line = <<>>
    /\ content = <<>>
    /\ ret = [call |-> "none", filetype |-> "none", value |-> "none"]
    /\ indent = NoIndent

\* the buffer once parse_filetype has returned p to parse
Constructed(p, filetype, lines) ==
    /\ IF p.some
       THEN /\ parsed' = TRUE
            /\ matches_by_line' = p.matches_by_line
            /\ state_by_line' = p.state_by_line
            /\ content' = lines
            /\ ret' = [call |-> "parse", filetype |-> filetype, value |-> "some"]
       ELSE /\ ret' = [call |-> "parse", filetype |-> filetype, value |-> "none"]
            /\ UNCHANGED <<parsed, matches_by_line, state_by_line, content>>
    /\ UNCHANGED indent

\* ParsedBuffer::parse: the buffer of a first full parse, or none
ParsedBuffer_parse(filetype, lines) ==
    Constructed(parse_filetype(filetype, lines, Normal), filetype, lines)

\* the caller's text once lines [start_line, old_end_line) are replaced
Edited(text, lines, start_line, old_end_line, new_end_line_opt) ==
    LET s == Min2(start_line, Len(text))
        e == Min2(old_end_line, Len(text))
        n == IF new_end_line_opt = None THEN Len(lines)
             ELSE Min2(new_end_line_opt - start_line, Len(lines))
    IN Splice(text, s, e, SubSeq(lines, 1, n))

\* the buffer and the text once reparse_range has returned r
Returned(r, filetype, edited) ==
    /\ matches_by_line' = r.matches_by_line
    /\ state_by_line' = r.state_by_line
    /\ ret' = [call |-> "reparse_range", filetype |-> filetype, value |-> r.ret]
    /\ content' = IF r.ret = "true" THEN edited ELSE content
    /\ UNCHANGED <<parsed, indent>>

\* ParsedBuffer::reparse_range on the buffer
ParsedBuffer_reparse_range(filetype, lines, start_line, old_end_line, new_end_line) ==
    /\ parsed
    /\ Returned(reparse_range(matches_by_line, state_by_line, filetype, lines,
                              start_line, old_end_line, new_end_line),
                filetype,
                Edited(content, lines, start_line, old_end_line, new_end_line))

\* a first parse of a text of at least one line
FirstParse ==
    \E filetype \in FiletypeIds, lines \in Texts(1, MaxLines) :
        /\ ~parsed
        /\ ParsedBuffer_parse(filetype, lines)

\* an edit of the text, as an editor reports it: lines [start_line,
\* old_end_line) are replaced by the lines supplied, which end at
\* new_end_line; the text keeps at least one line
Edit ==
    \E filetype \in FiletypeIds, lines \in Texts(0, MaxNewLines) :
      \E start_line \in 0..Len(content) :
        \E old_end_line \in start_line..Len(content) :
            /\ Len(content) - (old_end_line - start_line) + Len(lines) \in 1..MaxLines
            /\ Len(matches_by_line) <= MaxLines
            /\ ParsedBuffer_reparse_range(filetype, lines, start_line, old_end_line,
                                          start_line + Len(lines))

\* the same edit with new_end_line left to its default
EditDefaultEnd ==
    \E filetype \in FiletypeIds, lines \in Texts(0, MaxNewLines) :
      \E start_line \in 0..Len(content) :
        \E old_end_line \in start_line..Len(content) :
            /\ Len(content) - (old_end_line - start_line) + Len(lines) \in 1..MaxLines
            /\ Len(matches_by_line) <= MaxLines
            /\ ParsedBuffer_reparse_range(filetype, lines, start_line, old_end_line, None)

\* the whole unchanged text is parsed again into the buffer
FullReparse ==
    \E filetype \in FiletypeIds :
        ParsedBuffer_reparse_range(filetype, content, 0, Len(matches_by_line),
                                   Len(content))

\* the lines the texts of the language with spans are made of
SpanPool == <<
    << "$", "$" >>,
    << "x", "$", "$" >>,
    << "$", "$", "x" >>,
    << "x" >>,
    << "(" >> >>

SpanTexts(lo, hi) == UNION { [1..n -> { SpanPool[i] : i \in 1..Len(SpanPool) }] : n \in lo..hi }

\* a text with spans is parsed
ParseTex ==
    /\ ~parsed
    /\ \E lines \in SpanTexts(1, MaxSpanLines) : ParsedBuffer_parse("tex", lines)

\* one line of a text with spans is replaced, put in or taken out
EditTex ==
    \E lines \in SpanTexts(0, 1) :
      \E start_line \in 0..Len(content) :
        \E old_end_line \in start_line..Min2(start_line + 1, Len(content)) :
            /\ Len(content) - (old_end_line - start_line) + Len(lines) \in 1..MaxSpanLines
            /\ ParsedBuffer_reparse_range("tex", lines, start_line, old_end_line,
                                          start_line + Len(lines))

\* the lines a text with backslashes is made of
EscapePool == <<
    << "\\", "(" >>,
    << "\\", "\\", "(" >>,
    << "\\", "\\", "\\", "(" >>,
    << "\\" >>,
    << "(" >>,
    << "\\", "%", "(" >>,
    << "\\", "x", "(" >>,
    << ")", "\\", "\\" >> >>

EscapeTexts(lo, hi) ==
    UNION { [1..n -> { EscapePool[i] : i \in 1..Len(EscapePool) }] : n \in lo..hi }

\* a text with backslashes is parsed
ParseEscapes ==
    /\ ~parsed
    /\ \E lines \in EscapeTexts(1, MaxEscapeLines) : ParsedBuffer_parse("tex", lines)

\* one line of a text with backslashes is replaced, put in or taken out
EditEscapes ==
    \E lines \in EscapeTexts(0, 1) :
      \E start_line \in 0..Len(content) :
        \E old_end_line \in start_line..Min2(start_line + 1, Len(content)) :
            /\ Len(content) - (old_end_line - start_line) + Len(lines) \in 1..MaxEscapeLines
            /\ ParsedBuffer_reparse_range("tex", lines, start_line, old_end_line,
                                          start_line + Len(lines))

\* every call, new_end_line given or not
Next == FirstParse \/ Edit \/ EditDefaultEnd \/ FullReparse

Spec == Init /\ [][Next]_vars

\* the calls of a client that always gives new_end_line
NextGiven == FirstParse \/ Edit \/ FullReparse

SpecGiven == Init /\ [][NextGiven]_vars

\* the calls on a text of the language with spans
NextSpans == ParseTex \/ EditTex

SpecSpans == Init /\ [][NextSpans]_vars

\* the calls on a text with backslashes
NextEscapes == ParseEscapes \/ EditEscapes

SpecEscapes == Init /\ [][NextEscapes]_vars

-----------------------------------------------------------------------------
(* What the claims speak of *)

\* ---------------------------------------------------------------------
\* indent.rs: indentation widths
\* ---------------------------------------------------------------------

\* u8::saturating_add
saturating_add(a, b) == Min2(a + b, 255)

\* one lane of the whitespace vector: 1 for a space, tab_width for a tab,
\* 0 for every other byte
whitespace_lane(byte, tab_width) ==
    IF byte = " " THEN 1 ELSE IF byte = "\t" THEN tab_width ELSE 0

\* the loops over the whitespace lanes from lane k on: add up while the
\* lane is positive; a zero lane ends the indentation
RECURSIVE scan_lanes(_, _, _)
scan_lanes(whitespace, k, current_indentation) ==
    IF k > Len(whitespace)
    THEN [current_indentation |-> current_indentation, in_indentation |-> TRUE]
    ELSE IF whitespace[k] > 0
         THEN scan_lanes(whitespace, k + 1,
                         saturating_add(current_indentation, whitespace[k]))
         ELSE [current_indentation |-> current_indentation, in_indentation |-> FALSE]

\* the loop over the newline bitmask of one chunk, lowest bit first
RECURSIVE newline_loop(_, _, _)
newline_loop(whitespace, newlines, st) ==
    IF newlines = {}
    THEN st
    ELSE LET idx == CHOOSE k \in newlines : \A m \in newlines : k <= m
         IN  newline_loop(whitespace, newlines \ {idx},
                 [indentation |-> Append(st.indentation, st.current_indentation)]
                 @@ scan_lanes(whitespace, idx + 1, 0))

\* the state after the scan of the chunk's start
after_start(st, whitespace) ==
    IF st.in_indentation
    THEN [indentation |-> st.indentation] @@ scan_lanes(whitespace, 1, st.current_indentation)
    ELSE st

\* the body of the loop over the chunks
chunk_step(st, chunk, tab_width) ==
    IF ~st.in_indentation /\ \A k \in 1..Len(chunk) : chunk[k] # "\n"
    THEN st
    ELSE newline_loop([k \in 1..Len(chunk) |-> whitespace_lane(chunk[k], tab_width)],
                      {k \in 1..Len(chunk) : chunk[k] = "\n"},
                      after_start(st, [k \in 1..Len(chunk) |-> whitespace_lane(chunk[k], tab_width)]))

\* the body of the loop over the remainder
remainder_step(st, c, tab_width) ==
    IF c = "\n"
    THEN [in_indentation |-> TRUE,
          indentation |-> Append(st.indentation, st.current_indentation),
          current_indentation |-> 0]
    ELSE IF st.in_indentation
         THEN IF c = " "
              THEN [st EXCEPT !.current_indentation = saturating_add(@, 1)]
              ELSE IF c = "\t"
                   THEN [st EXCEPT !.current_indentation = saturating_add(@, tab_width)]
                   ELSE [st EXCEPT !.in_indentation = FALSE]
         ELSE st

RECURSIVE indent_loop(_, _, _, _, _)
indent_loop(src, i, N, tab_width, st) ==
    IF i + N - 1 <= Len(src)
    THEN indent_loop(src, i + N, N, tab_width,
                     chunk_step(st, SubSeq(src, i, i + N - 1), tab_width))
    ELSE IF i <= Len(src)
         THEN indent_loop(src, i + 1, N, tab_width,
                          remainder_step(st, src[i], tab_width))
         ELSE Append(st.indentation, st.current_indentation)

\* indent_levels::<N>(src, tab_width)
indent_levels(src, N, tab_width) ==
    indent_loop(src, 1, N, tab_width,
                [in_indentation |-> TRUE, indentation |-> <<>>, current_indentation |-> 0])

\* the bytes of the texts given to indent_levels
SrcBytes == {" ", "\t", "\n", "x"}
\* the chunk sizes (lane counts) and the tab widths of the calls
ChunkSizes == {1, 2, 4}
TabWidths == {0, 1, 2, 200}

RECURSIVE SrcTexts(_)
SrcTexts(n) ==
    IF n = 0 THEN {<<>>}
    ELSE SrcTexts(n - 1) \union
         {Append(t, b) : t \in {u \in SrcTexts(n - 1) : Len(u) = n - 1}, b \in SrcBytes}

\* the state before a call of indent_levels
InitIndent ==
    /\ parsed = FALSE
    /\ matches_by_line = <<>>
    /\ state_by_line = <<>>
    /\ content = <<>>
    /\ ret = [call |-> "none", filetype |-> "none", value |-> "none"]
    /\ \E src \in SrcTexts(MaxSrcLen), N \in ChunkSizes, tab_width \in TabWidths :
           indent = [src |-> src, tab_width |-> tab_width, N |-> N,
                     returned |-> FALSE, levels |-> <<>>]

\* the call: indent_levels::<N>(src, tab_width)
IndentLevels ==
    /\ ~indent.returned
    /\ indent' = [indent EXCEPT !.returned = TRUE,
                                !.levels = indent_levels(indent.src, indent.N, indent.tab_width)]
    /\ UNCHANGED <<parsed, matches_by_line, state_by_line, content, ret>>

NextIndent == IndentLevels

SpecIndent == InitIndent /\ [][NextIndent]_vars


\* the Delimiter Matches of the buffer in document order, with their lines
BufferDelimiters == OnlyDelimiters(iter_from_lines(matches_by_line, 0, -1, 0))

\* every Match of the buffer in document order, with its line
BufferMatches == iter_from_lines(matches_by_line, 0, -1, 0)

\* the bracket structure of a sequence d of delimiters, read as text is read:
\* a closer closes the innermost open opener, which must be of its type;
\* ok tells whether d is well-formed, pairs holds <<opener, closer, depth>>
RECURSIVE Nesting(_, _, _, _)
Nesting(d, i, open, pairs) ==
    IF i > Len(d) THEN [ok |-> open = <<>>, pairs |-> pairs]
    ELSE IF d[i].kind = "Opening" THEN Nesting(d, i + 1, Append(open, i), pairs)
    ELSE IF open = <<>> \/ d[open[Len(open)]].token # d[i].token
         THEN [ok |-> FALSE, pairs |-> pairs]
         ELSE Nesting(d, i + 1, SubSeq(open, 1, Len(open) - 1),
                      pairs \cup { <<open[Len(open)], i, Len(open) - 1>> })

\* C1: in a buffer whose delimiters are well-formed, each opener and its
\* closer carry their nesting depth as stack_height, and match_pair at the
\* opener and at the closer returns that pair.
C1_WellFormedPairs ==
    parsed =>
        LET d == BufferDelimiters
            n == Nesting(d, 1, <<>>, {})
        IN n.ok =>
            \A p \in n.pairs :
                /\ d[p[1]].stack_height = p[3]
                /\ d[p[2]].stack_height = p[3]
                /\ match_pair(matches_by_line, d[p[1]].line, d[p[1]].col)
                       = SomeR(<<d[p[1]], d[p[2]]>>)
                /\ match_pair(matches_by_line, d[p[2]].line, d[p[2]].col)
                       = SomeR(<<d[p[1]], d[p[2]]>>)

\* the positions resolution pairs together over the Matches m (all of them,
\* in document order): the set of <<opener, closer>>
RECURSIVE Paired(_, _, _, _)
Paired(m, i, stack, pairs) ==
    IF i > Len(m) THEN pairs
    ELSE IF m[i].kind = "Opening" THEN Paired(m, i + 1, Append(stack, i), pairs)
    ELSE LET below == {j \in 1..Len(stack) : m[stack[j]].token = m[i].token} IN
         IF below = {} THEN Paired(m, i + 1, stack, pairs)
         ELSE Paired(m, i + 1, SubSeq(stack, 1, Max(below) - 1),
                     pairs \cup { <<stack[Max(below)], i>> })

\* the positions of the delimiters resolution leaves unpaired
Unpaired(m) ==
    LET pairs == Paired(m, 1, <<>>, {}) IN
    { k \in 1..Len(m) :
        IsDelimiter(m[k].token) /\ \A p \in pairs : p[1] # k /\ p[2] # k }

Fresh == parse_filetype("sql", content, Normal)

\* C3: after a successful reparse_range of an edited range the buffer is the
\* one a full parse of the whole new text gives.
C3_ReparseEqualsFullParse ==
    (parsed /\ ret.call = "reparse_range" /\ ret.value = "true") =>
        /\ matches_by_line = Fresh.matches_by_line
        /\ state_by_line = Fresh.state_by_line

\* C4: reparse_range of the full unchanged text, right after the original
\* parse, leaves matches_by_line (heights included) and state_by_line as
\* they were.
C4_FullReparseIdempotent ==
    [][ ( /\ ret.call = "parse" /\ ret.value = "some"
          /\ ret'.call = "reparse_range" /\ ret'.value = "true"
          /\ content' = content
          /\ ParsedBuffer_reparse_range("sql", content, 0, Len(matches_by_line),
                                        Len(content)) )
        => UNCHANGED <<matches_by_line, state_by_line>> ]_vars

\* C5: with an unregistered language parse gives no buffer and reparse_range
\* returns false and leaves the buffer as it was; a reparse_range either
\* succeeds, with both vectors replaced alike and the heights recomputed,
\* or changes nothing.
C5_UnknownLanguageAtomic ==
    [][ /\ (ret'.call = "parse" /\ ret'.filetype \notin Filetypes)
            => (ret'.value = "none" /\ ~parsed')
        /\ (ret'.call = "reparse_range" /\ ret'.filetype \notin Filetypes)
            => (ret'.value = "false" /\ UNCHANGED <<matches_by_line, state_by_line>>)
        /\ (ret'.call = "reparse_range")
            => \/ /\ ret'.value = "true"
                  /\ Len(matches_by_line') = Len(state_by_line')
                  /\ recalculate_stack_heights(matches_by_line') = matches_by_line'
               \/ /\ ret'.value # "true"
                  /\ UNCHANGED <<matches_by_line, state_by_line>> ]_vars

\* reparse_range with an unregistered language returned false on a buffer
\* that holds resolved delimiters
C5_Witness ==
    /\ parsed
    /\ ret.call = "reparse_range" /\ ret.filetype \notin Filetypes /\ ret.value = "false"
    /\ \E k \in 1..Len(BufferMatches) : BufferMatches[k].stack_height # None

\* C6: both vectors have one entry per line of the text.
C6_LineCount ==
    parsed => /\ Len(matches_by_line) = Len(content)
              /\ Len(state_by_line) = Len(content)

\* C7: no entry of state_by_line is a State that a newline closes.
C7_NoLineStateSurvives ==
    \A l \in 1..Len(state_by_line) :
        state_by_line[l][1] \notin {"InString", "InLineComment", "InInlineSpan"}

\* the columns a cursor is put at
Cols == 0..Max({ Len(LinePool[i]) : i \in 1..Len(LinePool) })

IsComment(token) == token[1] \in {"LineComment", "BlockComment"}

\* C8: a comment Match has no stack_height, and no match_pair result holds
\* a comment Match.
C8_CommentsUnresolved ==
    parsed =>
        /\ \A k \in 1..Len(BufferMatches) :
              IsComment(BufferMatches[k].token) => BufferMatches[k].stack_height = None
        /\ \A l \in 0..(Len(matches_by_line) - 1), c \in Cols :
              LET p == match_pair(matches_by_line, l, c) IN
              p.tag = "Some" => ~IsComment(p.val[1].token) /\ ~IsComment(p.val[2].token)

\* matches_by_line with the delimiter m put in at (line_number, col), the
\* Matches of that line from col on moved one column right, and the heights
\* resolved again
Inserted(mbl, line_number, col, m) ==
    LET old == mbl[line_number + 1]
        left(x) == x.col < col
        right(x) == x.col >= col
        moved == SelectSeq(old, right)
    IN recalculate_stack_heights(
           [mbl EXCEPT ![line_number + 1] =
               SelectSeq(old, left) \o << m >>
               \o [k \in 1..Len(moved) |-> [moved[k] EXCEPT !.col = moved[k].col + 1]]])

\* C9: the opener unmatched_opening_before returns is matched once the
\* closing marker is put in at the cursor, and the closer
\* unmatched_closing_after returns is matched once the opening marker is.
C9_InsertionMatches ==
    parsed =>
        \A l \in 0..(Len(matches_by_line) - 1), c \in Cols, d \in Delimiters :
            LET before == unmatched_opening_before(matches_by_line, d[1], d[2], l, c)
                after == unmatched_closing_after(matches_by_line, d[1], d[2], l, c)
                closed == Inserted(matches_by_line, l, c,
                                   Match("Closing", Delimiter(d[1], d[2]), c, 1))
                opened == Inserted(matches_by_line, l, c,
                                   Match("Opening", Delimiter(d[1], d[2]), c, 1))
            IN /\ before.tag = "Some" =>
                    match_at(closed, before.val.line, before.val.col).val.stack_height # None
               /\ after.tag = "Some" =>
                    match_at(opened, after.val.line,
                             IF after.val.line = l THEN after.val.col + 1
                             ELSE after.val.col).val.stack_height # None

\* m lies before the cursor (line_number, col)
Before(m, line_number, col) ==
    m.line < line_number \/ (m.line = line_number /\ m.col < col)

\* C10: when the nearest delimiter before the cursor is an unmatched opener
\* of the requested pair, unmatched_opening_before returns it; and it never
\* returns an opener at or after the cursor.
C10_NearestOpenerBefore ==
    parsed =>
        \A l \in 0..(Len(matches_by_line) - 1), c \in Cols, d \in Delimiters :
            LET got == unmatched_opening_before(matches_by_line, d[1], d[2], l, c)
                earlier == { k \in 1..Len(BufferDelimiters) : Before(BufferDelimiters[k], l, c) }
            IN /\ got.tag = "Some" => Before(got.val, l, c)
               /\ (earlier # {}
                   /\ BufferDelimiters[Max(earlier)].kind = "Opening"
                   /\ BufferDelimiters[Max(earlier)].token = Delimiter(d[1], d[2])
                   /\ BufferDelimiters[Max(earlier)].stack_height = None)
                  => got = SomeR(BufferDelimiters[Max(earlier)])

-----------------------------------------------------------------------------
(* unmatched_closing_after *)

\* the positions in BufferDelimiters at or after the cursor
Later(line_number, col) ==
    { k \in 1..Len(BufferDelimiters) : ~Before(BufferDelimiters[k], line_number, col) }

\* BufferDelimiters[k] is an unmatched closer of the pair d
UnmatchedCloser(k, d) ==
    /\ BufferDelimiters[k].kind = "Closing"
    /\ BufferDelimiters[k].token = Delimiter(d[1], d[2])
    /\ BufferDelimiters[k].stack_height = None

\* BufferDelimiters[j] is a matched opener whose closer, the next closer of
\* its token and height, comes after position k
OpenAcross(j, k) ==
    /\ j < k
    /\ BufferDelimiters[j].kind = "Opening"
    /\ BufferDelimiters[j].stack_height # None
    /\ \E c \in (k + 1)..Len(BufferDelimiters) :
          /\ BufferDelimiters[c].kind = "Closing"
          /\ BufferDelimiters[c].token = BufferDelimiters[j].token
          /\ BufferDelimiters[c].stack_height = BufferDelimiters[j].stack_height
          /\ \A b \in (j + 1)..k :
                ~(/\ BufferDelimiters[b].kind = "Closing"
                  /\ BufferDelimiters[b].token = BufferDelimiters[j].token
                  /\ BufferDelimiters[b].stack_height = BufferDelimiters[j].stack_height)

\* what C11 says of every cursor whichever way "lies between" is read: the
\* result is an unmatched closer of the pair at or after the cursor, and the
\* first such closer is returned when only unmatched delimiters precede it
ClosingAfterBasics(l, c, d) ==
    LET got == unmatched_closing_after(matches_by_line, d[1], d[2], l, c)
        closers == { k \in Later(l, c) : UnmatchedCloser(k, d) }
    IN /\ got.tag # "Panic"
       /\ got.tag = "Some" => \E k \in closers : BufferDelimiters[k] = got.val
       /\ \A k \in closers :
             (\A j \in Later(l, c) : j < k => BufferDelimiters[j].stack_height = None)
                 => got = SomeR(BufferDelimiters[CHOOSE f \in closers :
                                                    \A g \in closers : f <= g])

\* C11 (as amended): unmatched_closing_after returns an unmatched closer of
\* the requested pair at or after the cursor, the first one when no matched
\* delimiter lies between the cursor and it, and never a closer that lies
\* inside a matched pair opened at or after the cursor.
C11_ClosingAfter ==
    parsed =>
        \A l \in 0..(Len(matches_by_line) - 1), c \in Cols, d \in Delimiters :
            LET got == unmatched_closing_after(matches_by_line, d[1], d[2], l, c) IN
            /\ ClosingAfterBasics(l, c, d)
            /\ got.tag = "Some" =>
                  \A k \in Later(l, c) : BufferDelimiters[k] = got.val =>
                      \A j \in Later(l, c) : ~OpenAcross(j, k)

\* C11 (as stated): as above, but nothing is returned whenever a matched
\* opener of another pair lies between the cursor and an unmatched closer
\* of the requested pair.
C11_AsStated ==
    parsed =>
        \A l \in 0..(Len(matches_by_line) - 1), c \in Cols, d \in Delimiters :
            LET got == unmatched_closing_after(matches_by_line, d[1], d[2], l, c) IN
            /\ ClosingAfterBasics(l, c, d)
            /\ (\E k \in Later(l, c) :
                   /\ UnmatchedCloser(k, d)
                   /\ \E j \in Later(l, c) :
                         /\ j < k
                         /\ BufferDelimiters[j].kind = "Opening"
                         /\ BufferDelimiters[j].stack_height # None
                         /\ BufferDelimiters[j].token # Delimiter(d[1], d[2]))
               => got = NoneR

\* a buffer like "( ] )": the query for [ ] returns the ] from the column
\* after the ( and nothing from the column of the (
C11_Witness ==
    /\ parsed
    /\ \E l \in 0..(Len(matches_by_line) - 1), c \in Cols :
          /\ unmatched_closing_after(matches_by_line, "[", "]", l, c) = NoneR
          /\ unmatched_closing_after(matches_by_line, "[", "]", l, c + 1).tag = "Some"
          /\ \E k \in Later(l, c) :
                UnmatchedCloser(k, <<"[", "]">>) /\ \E j \in Later(l, c) : OpenAcross(j, k)

-----------------------------------------------------------------------------
(* span_at *)

\* the columns a cursor is put at in a text with spans
SpanCols == 0..Max({ Len(SpanPool[i]) : i \in 1..Len(SpanPool) })

\* BufferMatches[o] opens a block span that BufferMatches[o + 1] closes on a
\* later line
SpansLines(o) ==
    /\ o + 1 <= Len(BufferMatches)
    /\ BufferMatches[o].kind = "Opening" /\ BufferMatches[o].token[1] = "BlockSpan"
    /\ BufferMatches[o + 1].kind = "Closing"
    /\ BufferMatches[o + 1].token = BufferMatches[o].token
    /\ BufferMatches[o + 1].line > BufferMatches[o].line

\* C12: of a block span opened on an earlier line, span_at returns the
\* identity on the lines between, and on the line where it ends before the
\* closing marker; it returns nothing past the closing marker, and nothing
\* before the opening marker on the line where the span starts.
C12_SpanAcrossLines ==
    parsed =>
        \A o \in 1..Len(BufferMatches) : SpansLines(o) =>
            LET open == BufferMatches[o]
                close == BufferMatches[o + 1]
                span == SomeR(open.token[4])
                at(l, c) == span_at(matches_by_line, state_by_line, l, c)
            IN /\ \A l \in (open.line + 1)..(close.line - 1), c \in SpanCols :
                     at(l, c) = span
               /\ \A c \in SpanCols : c < close.col => at(close.line, c) = span
               /\ \A c \in SpanCols :
                     (/\ c >= close.col + close.len
                      /\ \A k \in 1..Len(BufferMatches) :
                            BufferMatches[k].line = close.line => k <= o + 1)
                         => at(close.line, c) = NoneR
               /\ \A c \in SpanCols :
                     (/\ c < open.col
                      /\ \A k \in 1..Len(BufferMatches) :
                            BufferMatches[k].line = open.line => k >= o
                      /\ (open.line > 0 => state_by_line[open.line] = Normal))
                         => at(open.line, c) = NoneR

-----------------------------------------------------------------------------
(* Queries outside the buffer *)

\* C13: a query at a line at or beyond the line count does not abort and
\* returns an empty or absent result: no Matches, no Match, no span, no
\* pair, depth 0.
C13_OutOfRange ==
    parsed =>
        \A l \in Len(matches_by_line)..(Len(matches_by_line) + 2), c \in Cols :
            /\ line_matches(matches_by_line, l) = NoneR
            /\ iter_from(matches_by_line, l, c) = SomeR(<<>>)
            /\ iter_to(matches_by_line, l, c).tag # "Panic"
            /\ span_at(matches_by_line, state_by_line, l, c) = NoneR
            /\ match_at(matches_by_line, l, c) = NoneR
            /\ match_pair(matches_by_line, l, c) = NoneR
            /\ stack_height_at(matches_by_line, l, c) = SomeR(0)
            /\ \A d \in Delimiters :
                  /\ unmatched_opening_before(matches_by_line, d[1], d[2], l, c).tag # "Panic"
                  /\ unmatched_closing_after(matches_by_line, d[1], d[2], l, c) = NoneR

\* the text's lines: the bytes between the newlines
RECURSIVE SrcLines(_, _, _)
SrcLines(src, i, line) ==
    IF i > Len(src) THEN <<line>>
    ELSE IF src[i] = "\n" THEN <<line>> \o SrcLines(src, i + 1, <<>>)
    ELSE SrcLines(src, i + 1, Append(line, src[i]))

\* the width of a line's leading run of spaces and tabs, not yet saturated
RECURSIVE LeadingWidth(_, _, _)
LeadingWidth(line, i, tab_width) ==
    IF i > Len(line) \/ line[i] \notin {" ", "\t"} THEN 0
    ELSE (IF line[i] = " " THEN 1 ELSE tab_width) + LeadingWidth(line, i + 1, tab_width)

\* the naive scan: one width per line, saturating at 255
NaiveLevels(src, tab_width) ==
    [k \in 1..Len(SrcLines(src, 1, <<>>)) |->
        Min2(LeadingWidth(SrcLines(src, 1, <<>>)[k], 1, tab_width), 255)]

\* C14: for every text, tab_width and chunk size N, indent_levels returns
\* what the naive byte-by-byte scan returns: one width per line, the
\* saturated sum of the line's leading spaces (1 each) and tabs (tab_width
\* each)
C14_IndentEqualsNaive ==
    indent.returned => indent.levels = NaiveLevels(indent.src, indent.tab_width)

\* the same for the calls with a positive tab_width
C14_PositiveTabWidth ==
    indent.returned /\ indent.tab_width > 0
        => indent.levels = NaiveLevels(indent.src, indent.tab_width)

\* the stack of the resolution pass before it handles the Match at position
\* i of the stream: every Opening Match is pushed; a closer with a compatible
\* entry takes the nearest one from the top and everything above it off the
\* stack; a closer without one leaves the stack as it is
RECURSIVE StackBefore(_, _)
StackBefore(flat, i) ==
    IF i <= 1 THEN <<>>
    ELSE IF flat[i - 1].kind = "Opening" THEN Append(StackBefore(flat, i - 1), i - 1)
    ELSE IF \E j \in 1..Len(StackBefore(flat, i - 1)) :
                flat[StackBefore(flat, i - 1)[j]].token = flat[i - 1].token
         THEN SubSeq(StackBefore(flat, i - 1), 1,
                     Max({j \in 1..Len(StackBefore(flat, i - 1)) :
                             flat[StackBefore(flat, i - 1)[j]].token = flat[i - 1].token}) - 1)
         ELSE StackBefore(flat, i - 1)

\* the stack positions of the entries compatible with the closer at i
Compatible(flat, stack, i) ==
    {j \in 1..Len(stack) : flat[stack[j]].token = flat[i].token}

\* the closer at position i got the heights the resolution step gives
StepResolved(flat, stack, i) ==
    IF Compatible(flat, stack, i) = {}
    THEN flat[i].stack_height = None
    ELSE /\ flat[i].stack_height = Max(Compatible(flat, stack, i)) - 1
         /\ flat[stack[Max(Compatible(flat, stack, i))]].stack_height
                = Max(Compatible(flat, stack, i)) - 1
         /\ \A x \in (Max(Compatible(flat, stack, i)) + 1)..Len(stack) :
                flat[stack[x]].stack_height = None

\* the closing Delimiter Matches of a stream
ClosingDelimiters(flat) ==
    {i \in 1..Len(flat) : flat[i].kind = "Closing" /\ IsDelimiter(flat[i].token)}

\* C15: in the resolution pass a closing delimiter pairs with the nearest
\* compatible opener from the top of the stack; the entries above that
\* opener are popped and get None, opener and closer get the number of
\* entries beneath the opener, and a closer without a compatible opener gets
\* None and leaves the stack untouched.
C15_ResolutionStep ==
    (parsed /\ ret.call = "reparse_range" /\ ret.value = "true") =>
        \A i \in ClosingDelimiters(Flatten(matches_by_line)) :
            StepResolved(Flatten(matches_by_line),
                         StackBefore(Flatten(matches_by_line), i), i)

\* a resolution pass has paired a closer with an opener that had another
\* entry above it on the stack
C15_Witness ==
    /\ parsed /\ ret.call = "reparse_range" /\ ret.value = "true"
    /\ \E i \in ClosingDelimiters(Flatten(matches_by_line)) :
          /\ Compatible(Flatten(matches_by_line),
                        StackBefore(Flatten(matches_by_line), i), i) # {}
          /\ Max(Compatible(Flatten(matches_by_line),
                            StackBefore(Flatten(matches_by_line), i), i))
                < Len(StackBefore(Flatten(matches_by_line), i))

\* a resolution pass has paired a closer with an opener that has an entry
\* beneath it on the stack
C15_WitnessNested ==
    /\ parsed /\ ret.call = "reparse_range" /\ ret.value = "true"
    /\ \E i \in ClosingDelimiters(Flatten(matches_by_line)) :
          /\ Compatible(Flatten(matches_by_line),
                        StackBefore(Flatten(matches_by_line), i), i) # {}
          /\ Flatten(matches_by_line)[i].stack_height > 0

\* the closers of a stream that take the opener at position k off the stack
\* as their partner
ClosersOf(flat, k) ==
    {i \in (k + 1)..Len(flat) :
        /\ flat[i].kind # "Opening"
        /\ Compatible(flat, StackBefore(flat, i), i) # {}
        /\ StackBefore(flat, i)[Max(Compatible(flat, StackBefore(flat, i), i))] = k}

\* the height a resolution from scratch gives the Match at position k: that
\* of its pair, or None
ScratchHeight(flat, k) ==
    IF flat[k].kind = "Opening"
    THEN IF ClosersOf(flat, k) = {} THEN None
         ELSE Max({Max(Compatible(flat, StackBefore(flat, i), i)) - 1 : i \in ClosersOf(flat, k)})
    ELSE IF Compatible(flat, StackBefore(flat, k), k) = {} THEN None
         ELSE Max(Compatible(flat, StackBefore(flat, k), k)) - 1

\* C16: after every successful reparse_range the stack_height of every
\* delimiter Match of the buffer, on whatever line, is the one a resolution
\* from scratch over the buffer's current Matches gives; no height from
\* before the edit is kept.
C16_HeightsFromScratch ==
    (parsed /\ ret.call = "reparse_range" /\ ret.value = "true") =>
        \A k \in 1..Len(Flatten(matches_by_line)) :
            IsDelimiter(Flatten(matches_by_line)[k].token) =>
                Flatten(matches_by_line)[k].stack_height
                    = ScratchHeight(Flatten(matches_by_line), k)

\* after a reparse_range of one line of two, a pair has its opener on one
\* line and its closer on the other
C16_Witness ==
    /\ parsed /\ ret.call = "reparse_range" /\ ret.value = "true"
    /\ Len(matches_by_line) = 2
    /\ \E o \in 1..Len(matches_by_line[1]), c \in 1..Len(matches_by_line[2]) :
          /\ matches_by_line[1][o].kind = "Opening"
          /\ matches_by_line[2][c].kind = "Closing"
          /\ IsDelimiter(matches_by_line[1][o].token)
          /\ matches_by_line[2][c].token = matches_by_line[1][o].token
          /\ matches_by_line[1][o].stack_height # None
          /\ matches_by_line[2][c].stack_height = matches_by_line[1][o].stack_height
    /\ \E k \in 1..Len(matches_by_line[1]) :
          /\ matches_by_line[1][k].kind = "Opening"
          /\ matches_by_line[1][k].stack_height = None

\* the pair of positions resolution put the Match at position k in
PairOf(m, k) ==
    CHOOSE p \in Paired(m, 1, <<>>, {}) : p[1] = k \/ p[2] = k

\* C17: in a resolved buffer, match_pair at any column of a delimiter Match
\* with a stack_height returns the pair resolution made of it: an Opening
\* and a Closing Match of the same token and height, the opener before the
\* closer, the queried Match one of them, the same from both ends.
C17_MatchPairIsResolvedPair ==
    parsed =>
        \A k \in 1..Len(BufferMatches) :
            (IsDelimiter(BufferMatches[k].token) /\ BufferMatches[k].stack_height # None) =>
                /\ \E p \in Paired(BufferMatches, 1, <<>>, {}) : p[1] = k \/ p[2] = k
                /\ BufferMatches[PairOf(BufferMatches, k)[1]].kind = "Opening"
                /\ BufferMatches[PairOf(BufferMatches, k)[2]].kind = "Closing"
                /\ PairOf(BufferMatches, k)[1] < PairOf(BufferMatches, k)[2]
                /\ BufferMatches[PairOf(BufferMatches, k)[1]].token = BufferMatches[k].token
                /\ BufferMatches[PairOf(BufferMatches, k)[2]].token = BufferMatches[k].token
                /\ BufferMatches[PairOf(BufferMatches, k)[1]].stack_height
                       = BufferMatches[k].stack_height
                /\ BufferMatches[PairOf(BufferMatches, k)[2]].stack_height
                       = BufferMatches[k].stack_height
                /\ \A col \in BufferMatches[k].col..(BufferMatches[k].col + BufferMatches[k].len - 1) :
                       match_pair(matches_by_line, BufferMatches[k].line, col)
                           = SomeR(<<BufferMatches[PairOf(BufferMatches, k)[1]],
                                     BufferMatches[PairOf(BufferMatches, k)[2]]>>)

\* the buffer after a reparse_range holds two pairs of the same token and
\* height, one after the other
C17_Witness ==
    /\ parsed /\ ret.call = "reparse_range" /\ ret.value = "true"
    /\ \E p \in Paired(BufferMatches, 1, <<>>, {}), q \in Paired(BufferMatches, 1, <<>>, {}) :
          /\ p[2] < q[1]
          /\ IsDelimiter(BufferMatches[p[1]].token)
          /\ BufferMatches[p[1]].token = BufferMatches[q[1]].token
          /\ BufferMatches[p[1]].stack_height # None
          /\ BufferMatches[p[1]].stack_height = BufferMatches[q[1]].stack_height

\* a malformed buffer holds a pair whose opener lies on another line than its
\* closer, with an unmatched opener between them
C17_WitnessMalformed ==
    /\ parsed
    /\ \E p \in Paired(BufferMatches, 1, <<>>, {}) :
          /\ IsDelimiter(BufferMatches[p[1]].token)
          /\ BufferMatches[p[1]].line # BufferMatches[p[2]].line
          /\ \E k \in Unpaired(BufferMatches) : p[1] < k /\ k < p[2]

\* the Matches of a line without their stack_height
Unresolved(line_matches_) ==
    [k \in 1..Len(line_matches_) |-> [line_matches_[k] EXCEPT !.stack_height = None]]

\* r is the buffer mbl, sbl with the lines [start_line, old_end_line)
\* replaced by the first length lines of the parse p, stack heights apart
RangeReplaced(r, p, mbl, sbl, start_line, old_end_line, length) ==
    /\ Len(r.matches_by_line) = Len(mbl) - (old_end_line - start_line) + length
    /\ Len(r.state_by_line) = Len(sbl) - (old_end_line - start_line) + length
    /\ \A l \in 1..Len(r.matches_by_line) :
          IF l <= start_line
          THEN /\ Unresolved(r.matches_by_line[l]) = Unresolved(mbl[l])
               /\ r.state_by_line[l] = sbl[l]
          ELSE IF l <= start_line + length
          THEN /\ Unresolved(r.matches_by_line[l]) = Unresolved(p.matches_by_line[l - start_line])
               /\ r.state_by_line[l] = p.state_by_line[l - start_line]
          ELSE /\ Unresolved(r.matches_by_line[l])
                      = Unresolved(mbl[l - (start_line + length) + old_end_line])
               /\ r.state_by_line[l] = sbl[l - (start_line + length) + old_end_line]

\* a call that returned true replaced the range
ReplacedIfTrue(r, p, mbl, sbl, start_line, old_end_line, new_end_line) ==
    r.ret = "true" =>
        RangeReplaced(r, p, mbl, sbl, start_line, old_end_line,
                      (IF new_end_line = None THEN start_line + Len(p.matches_by_line)
                       ELSE new_end_line) - start_line)

\* C18: a successful reparse_range(lines, start_line, old_end_line,
\* new_end_line) replaces exactly the entries [start_line, old_end_line) of
\* matches_by_line and state_by_line by the first new_end_line - start_line
\* parsed lines; on every other line the State and each Match's kind,
\* token, column and length stay, lines behind the range shifted, and only
\* stack_height may differ.
C18_ExactlyTheRange ==
    parsed =>
        \A lines \in Texts(0, MaxNewLines) :
          \A start_line \in 0..Len(matches_by_line) :
            \A old_end_line \in {None} \cup start_line..Len(matches_by_line),
               new_end_line \in {None} \cup start_line..(start_line + 1) :
              ReplacedIfTrue(
                  reparse_range(matches_by_line, state_by_line, "sql", lines,
                                start_line, old_end_line, new_end_line),
                  parse_filetype("sql", lines, initial_state_at(state_by_line, start_line)),
                  matches_by_line, state_by_line, start_line,
                  IF old_end_line = None THEN Len(matches_by_line) ELSE old_end_line,
                  new_end_line)

\* a reparse_range has replaced the second of two lines, and the Match of
\* the first line, outside the range, has another stack_height than before
C18_Witness ==
    /\ parsed /\ ret.call = "reparse_range" /\ ret.value = "true"
    /\ Len(matches_by_line) = 2
    /\ matches_by_line[1] # <<>>
    /\ \E lines \in Texts(1, MaxNewLines) :
          /\ reparse_range(matches_by_line, state_by_line, "sql", lines, 1, 2, 2).ret = "true"
          /\ reparse_range(matches_by_line, state_by_line, "sql", lines, 1, 2, 2).matches_by_line[1]
                 # matches_by_line[1]

\* the arguments start_line, old_end_line, new_end_line of a call on a buffer
\* of n lines: absent, or a line number up to one past the buffer's end
LineArgs(n) == {None} \cup 0..(n + 1)

\* C19: reparse_range completes and returns true or false for every
\* combination of present and absent start_line, old_end_line and
\* new_end_line, also when the clamped start_line exceeds old_end_line, when
\* new_end_line is smaller than start_line, and when new_end_line -
\* start_line exceeds the number of lines parsed.
C19_AlwaysCompletes ==
    parsed =>
        \A filetype \in FiletypeIds, lines \in Texts(0, MaxNewLines) :
          \A start_line \in LineArgs(Len(matches_by_line)),
             old_end_line \in LineArgs(Len(matches_by_line)),
             new_end_line \in LineArgs(Len(matches_by_line)) :
            reparse_range(matches_by_line, state_by_line, filetype, lines,
                          start_line, old_end_line, new_end_line).ret \in {"true", "false"}

\* the length of the run of backslashes that ends at byte k of a line
RECURSIVE BackslashRun(_, _)
BackslashRun(line, k) ==
    IF k < 1 \/ line[k] # "\\" THEN 0 ELSE 1 + BackslashRun(line, k - 1)

\* the calls of matcher.call in a parse of the buffer's text
MatcherCalls == parse(content, Normal, Tex).calls

\* C20: a token is passed to the matcher with is_escaped exactly when the
\* run of backslashes ending just before its column on its line has odd
\* length; a pending escape does not cross a newline, and no backslash is
\* passed to the matcher.
C20_EscapedIffOddRun ==
    parsed =>
        \A k \in 1..Len(MatcherCalls) :
            /\ MatcherCalls[k].byte # "\\"
            /\ content[MatcherCalls[k].line + 1][MatcherCalls[k].col + 1] = MatcherCalls[k].byte
            /\ MatcherCalls[k].is_escaped
                  <=> BackslashRun(content[MatcherCalls[k].line + 1], MatcherCalls[k].col) % 2 = 1

\* an escaped opener yields no Match, an opener after two backslashes does
C20_EscapedYieldsNoMatch ==
    parsed /\ ret.call = "parse" =>
        \A l \in 1..Len(content) :
            \A c \in 1..Len(content[l]) :
                content[l][c] = "(" /\ (\A b \in 1..(c - 1) : content[l][b] \in {"\\"}) =>
                    ((\E k \in 1..Len(matches_by_line[l]) : matches_by_line[l][k].col = c - 1)
                        <=> BackslashRun(content[l], c - 1) % 2 = 0)

\* the parsed text has a token after three backslashes, which is escaped, on
\* a line that follows a line ending in a single backslash
C20_Witness ==
    /\ parsed /\ Len(content) = 2
    /\ content[1] = << "\\" >>
    /\ \E k \in 1..Len(MatcherCalls) :
          /\ MatcherCalls[k].line = 1
          /\ MatcherCalls[k].is_escaped
          /\ BackslashRun(content[2], MatcherCalls[k].col) = 3

\* the parsed text has a token after two backslashes, which is not escaped,
\* and a token at column 0 of a line that follows a line ending in a backslash
C20_WitnessEven ==
    /\ parsed /\ Len(content) = 2
    /\ content[1] = << "\\" >>
    /\ content[2] = << "(" >>
    /\ \E k \in 1..Len(MatcherCalls) : MatcherCalls[k].line = 1 /\ ~MatcherCalls[k].is_escaped

-----------------------------------------------------------------------------
(* stack_height_at, iter_from, iter_to *)

\* the positions in BufferMatches of the Matches with a stack_height at or
\* after the cursor, and of those before it
ResolvedAhead(line_number, col) ==
    { k \in 1..Len(BufferMatches) :
        /\ ~Before(BufferMatches[k], line_number, col)
        /\ BufferMatches[k].stack_height # None }

ResolvedBehind(line_number, col) ==
    { k \in 1..Len(BufferMatches) :
        /\ Before(BufferMatches[k], line_number, col)
        /\ BufferMatches[k].stack_height # None }

\* the depth at the cursor: from the first Match with a height ahead, else
\* from the nearest one behind, else 0
DepthAt(ahead, behind) ==
    IF ahead # {}
    THEN BufferMatches[CHOOSE k \in ahead : \A j \in ahead : k <= j].stack_height
         + (IF BufferMatches[CHOOSE k \in ahead : \A j \in ahead : k <= j].kind = "Closing"
            THEN 1 ELSE 0)
    ELSE IF behind # {}
    THEN BufferMatches[Max(behind)].stack_height
         + (IF BufferMatches[Max(behind)].kind = "Opening" THEN 1 ELSE 0)
    ELSE 0

\* C21: stack_height_at returns the stack_height of the first Match at or
\* after the cursor, plus 1 if it is a closer; with no Match ahead, that of
\* the nearest Match behind the cursor, plus 1 if it is an opener; and 0
\* when there is no Match. (Matches without a stack_height are passed over.)
C21_DepthAtCursor ==
    parsed =>
        \A l \in 0..(Len(matches_by_line) - 1), c \in Cols :
            stack_height_at(matches_by_line, l, c)
                = SomeR(DepthAt(ResolvedAhead(l, c), ResolvedBehind(l, c)))

\* the same for the cursors that have a Match with a height ahead
C21_ForwardPass ==
    parsed =>
        \A l \in 0..(Len(matches_by_line) - 1), c \in Cols :
            ResolvedAhead(l, c) # {} =>
                stack_height_at(matches_by_line, l, c)
                    = SomeR(DepthAt(ResolvedAhead(l, c), ResolvedBehind(l, c)))

\* the Matches of the buffer at or after the cursor, in document order
MatchesFrom(line_number, col) ==
    LET later(m) == ~Before(m, line_number, col) IN SelectSeq(BufferMatches, later)

\* the Matches of the buffer strictly before the cursor, in document order
MatchesTo(line_number, col) ==
    LET earlier(m) == Before(m, line_number, col) IN SelectSeq(BufferMatches, earlier)

\* C22: iter_from yields exactly the Matches at or after the cursor in
\* document order, and iter_to exactly the Matches strictly before it in
\* reverse document order, the nearest first, also among the Matches of one
\* line; a second iteration over the unchanged buffer yields the same.
C22_IterationOrder ==
    parsed =>
        \A l \in 0..(Len(matches_by_line) - 1), c \in Cols :
            /\ iter_from(matches_by_line, l, c) = SomeR(MatchesFrom(l, c))
            /\ iter_to(matches_by_line, l, c) = SomeR(Reverse(MatchesTo(l, c)))

\* the part of it about iter_from
C22_IterFrom ==
    parsed =>
        \A l \in 0..(Len(matches_by_line) - 1), c \in Cols :
            iter_from(matches_by_line, l, c) = SomeR(MatchesFrom(l, c))

\* iter_to yields the Matches strictly before the cursor, in some order
C22_IterToSameMatches ==
    parsed =>
        \A l \in 0..(Len(matches_by_line) - 1), c \in Cols :
            /\ iter_to(matches_by_line, l, c).tag = "Some"
            /\ Len(iter_to(matches_by_line, l, c).val) = Len(MatchesTo(l, c))
            /\ \A k \in 1..Len(MatchesTo(l, c)) :
                  \E j \in 1..Len(MatchesTo(l, c)) :
                      iter_to(matches_by_line, l, c).val[j] = MatchesTo(l, c)[k]

-----------------------------------------------------------------------------
(* the Matches of lower depth in the unmatched searches *)

\* the minimum the search tracks when it comes to the k-th Match of its
\* walk: the cursor's depth and the heights met so far
RECURSIVE TrackedMinimum(_, _, _)
TrackedMinimum(walk, k, cursor_stack_height) ==
    IF k <= 1 THEN cursor_stack_height
    ELSE IF walk[k - 1].stack_height # None
         THEN Min2(walk[k - 1].stack_height, TrackedMinimum(walk, k - 1, cursor_stack_height))
         ELSE TrackedMinimum(walk, k - 1, cursor_stack_height)

\* the positions of the walk, up to the Match returned, that hold a Match of
\* lower depth than the tracked minimum
LowerMet(walk, got, cursor_stack_height) ==
    { k \in 1..Len(walk) :
        /\ \E j \in k..Len(walk) : walk[j] = got
        /\ walk[k].stack_height # None
        /\ walk[k].stack_height < TrackedMinimum(walk, k, cursor_stack_height) }

\* a search that returned a Match met Matches of lower depth only of the
\* requested pair and of the kind searched for
OnlyRequestedLower(walk, got, cursor_stack_height, wanted, d) ==
    got.tag = "Some" =>
        \A k \in LowerMet(walk, got.val, cursor_stack_height) :
            walk[k].kind = wanted /\ walk[k].token = Delimiter(d[1], d[2])

\* a search that returned a Match met no Match of lower depth that has a
\* stack_height, that is, no matched one
NoMatchedLower(walk, got, cursor_stack_height) ==
    got.tag = "Some" => LowerMet(walk, got.val, cursor_stack_height) = {}

\* C23 (as amended): when the walk outward from the cursor meets a delimiter
\* Match of lower depth than the tracked minimum, the search goes on,
\* lowering the minimum to that depth, only if the Match is a delimiter of
\* the requested pair and of the kind searched for, which is a matched one;
\* every other Match of lower depth makes the search return nothing.
C23_LowerDepth ==
    parsed =>
        \A l \in 0..(Len(matches_by_line) - 1), c \in Cols, d \in Delimiters :
            /\ OnlyRequestedLower(OnlyDelimiters(iter_from(matches_by_line, l, c).val),
                                  unmatched_closing_after(matches_by_line, d[1], d[2], l, c),
                                  stack_height_at(matches_by_line, l, c).val, "Closing", d)
            /\ OnlyRequestedLower(OnlyDelimiters(iter_to(matches_by_line, l, c).val),
                                  unmatched_opening_before(matches_by_line, d[1], d[2], l, c),
                                  stack_height_at(matches_by_line, l, c).val, "Opening", d)

\* C23 (as stated): a search that meets a Match of lower depth goes on only
\* if that Match is an unmatched delimiter of the requested pair; a matched
\* delimiter of lower depth, of the requested pair or not, makes it return
\* nothing.
C23_AsStated ==
    parsed =>
        \A l \in 0..(Len(matches_by_line) - 1), c \in Cols, d \in Delimiters :
            /\ NoMatchedLower(OnlyDelimiters(iter_from(matches_by_line, l, c).val),
                              unmatched_closing_after(matches_by_line, d[1], d[2], l, c),
                              stack_height_at(matches_by_line, l, c).val)
            /\ NoMatchedLower(OnlyDelimiters(iter_to(matches_by_line, l, c).val),
                              unmatched_opening_before(matches_by_line, d[1], d[2], l, c),
                              stack_height_at(matches_by_line, l, c).val)

\* a search for a closer went on past a matched closer of the requested
\* pair of lower depth and returned the unmatched closer behind it
C23_Witness ==
    /\ parsed /\ Len(matches_by_line) = Len(content)
    /\ \E l \in 0..(Len(matches_by_line) - 1), c \in Cols, d \in Delimiters :
          /\ unmatched_closing_after(matches_by_line, d[1], d[2], l, c).tag = "Some"
          /\ LowerMet(OnlyDelimiters(iter_from(matches_by_line, l, c).val),
                      unmatched_closing_after(matches_by_line, d[1], d[2], l, c).val,
                      stack_height_at(matches_by_line, l, c).val) # {}

\* a search for a closer gave up at a matched closer of another pair, the
\* first Match ahead of the cursor, with an unmatched closer of the requested
\* pair behind it
C23_WitnessGivesUp ==
    /\ parsed /\ Len(matches_by_line) = Len(content)
    /\ \E l \in 0..(Len(matches_by_line) - 1), c \in Cols, d \in Delimiters :
          /\ unmatched_closing_after(matches_by_line, d[1], d[2], l, c).tag = "None"
          /\ Later(l, c) # {}
          /\ BufferDelimiters[CHOOSE k \in Later(l, c) : \A j \in Later(l, c) : k <= j].stack_height
                 \notin {None}
          /\ BufferDelimiters[CHOOSE k \in Later(l, c) : \A j \in Later(l, c) : k <= j].kind
                 = "Closing"
          /\ BufferDelimiters[CHOOSE k \in Later(l, c) : \A j \in Later(l, c) : k <= j].token
                 # Delimiter(d[1], d[2])
          /\ \E k \in Later(l, c) : UnmatchedCloser(k, d)

-----------------------------------------------------------------------------
(* the pairs of a resolved buffer *)

\* the pairs of delimiters resolution made, as positions in BufferMatches
DelimiterPairs ==
    { p \in Paired(BufferMatches, 1, <<>>, {}) : IsDelimiter(BufferMatches[p[1]].token) }

\* the pair p lies strictly inside the pair q
Inside(p, q) == q[1] < p[1] /\ p[2] < q[2]

\* C24: after resolution the delimiters with a stack_height form properly
\* nested pairs: each is in exactly one pair, an opener and a later closer
\* of the same token and height; two pairs are disjoint or one strictly
\* contains the other; a pair inside another has a greater height; and the
\* height of a pair is the number of openers before it that are neither
\* closed nor discarded, those that end up unmatched included.
C24_ProperlyNested ==
    (parsed /\ ret.call = "reparse_range" /\ ret.value = "true") =>
        /\ \A k \in 1..Len(BufferMatches) :
              (IsDelimiter(BufferMatches[k].token) /\ BufferMatches[k].stack_height # None) =>
                  Cardinality({ p \in DelimiterPairs : p[1] = k \/ p[2] = k }) = 1
        /\ \A p \in DelimiterPairs :
              /\ p[1] < p[2]
              /\ BufferMatches[p[1]].kind = "Opening" /\ BufferMatches[p[2]].kind = "Closing"
              /\ BufferMatches[p[1]].token = BufferMatches[p[2]].token
              /\ BufferMatches[p[1]].stack_height # None
              /\ BufferMatches[p[1]].stack_height = BufferMatches[p[2]].stack_height
              /\ BufferMatches[p[1]].stack_height
                     = Len(StackBefore(Flatten(matches_by_line), p[1]))
        /\ \A p \in DelimiterPairs, q \in DelimiterPairs :
              /\ p # q => \/ p[2] < q[1] \/ q[2] < p[1] \/ Inside(p, q) \/ Inside(q, p)
              /\ Inside(p, q) =>
                     BufferMatches[p[1]].stack_height > BufferMatches[q[1]].stack_height

\* a resolved buffer holds a pair of height 1 whose enclosing opener ended
\* up unmatched
C24_Witness ==
    /\ parsed /\ ret.call = "reparse_range" /\ ret.value = "true"
    /\ \E p \in DelimiterPairs :
          /\ BufferMatches[p[1]].stack_height = 1
          /\ \E k \in Unpaired(BufferMatches) :
                k < p[1] /\ BufferMatches[k].kind = "Opening"

\* a resolved buffer holds a pair strictly inside another pair
C24_WitnessInside ==
    /\ parsed /\ ret.call = "reparse_range" /\ ret.value = "true"
    /\ \E p \in DelimiterPairs, q \in DelimiterPairs : Inside(p, q)

\* a resolved buffer holds two pairs one after the other
C24_WitnessDisjoint ==
    /\ parsed /\ ret.call = "reparse_range" /\ ret.value = "true"
    /\ \E p \in DelimiterPairs, q \in DelimiterPairs : p[2] < q[1]

====
